---- MODULE Spec2Model ----
(***************************************************************************)
(* A model of smarteditor-ghclient: the digest formatter and the comment   *)
(* parser, the replay loop of commit_edited_file, the diff-line locator of *)
(* post_review_comment_on_violation, and the two flows (process_file and   *)
(* commit_edited_file) over a pull-request comment thread.                 *)
(*                                                                         *)
(* Text is a sequence of symbols.  A symbol is one character ("a", "b",    *)
(* " ", "\n", "+", ">") or one of the literal strings the program writes   *)
(* and searches for, taken as a unit ("**Original:**", "**Revised:**",     *)
(* "**Explanation:**", the digest marker of a file).  None of these        *)
(* literals overlaps itself or another one on a character the program      *)
(* tests, so a match on characters is a match on symbols.                  *)
(***************************************************************************)
EXTENDS Integers, Sequences, FiniteSets, TLC

VARIABLES
    \* format_smarteditor_suggestions / parse_smarteditor_comment
    violations, body, edited, pairs, ppc,
    \* the replay loop of commit_edited_file, run twice
    rcontent, rpairs, rfirst, rsecond, rpc,
    \* post_review_comment_on_violation
    patch, inPr, violation, reviews, lpc,
    \* the pull request: its comment thread, the working file, the last run
    thread, file, run

vars == <<violations, body, edited, pairs, ppc,
          rcontent, rpairs, rfirst, rsecond, rpc,
          patch, inPr, violation, reviews, lpc,
          thread, file, run>>

parserVars == <<violations, body, edited, pairs, ppc>>
replayVars == <<rcontent, rpairs, rfirst, rsecond, rpc>>
locateVars == <<patch, inPr, violation, reviews, lpc>>
flowVars == <<thread, file, run>>

----------------------------------------------------------------------------
\* Bounds of the model.

\* Size of a list of violations: one per violation plus one per symbol.
MaxSize == 4

\* Symbols of the file content the replay loop is run on.
MaxContent == 3

\* Size of a list of (original, revised) pairs: one per pair plus one per symbol.
MaxPairsSize == 5

\* Symbols of a diff patch, and of the sentence looked for in it.
MaxPatch == 4
MaxSentence == 2

\* Comments on the pull-request thread.
MaxThread == 3

----------------------------------------------------------------------------
\* Symbols.

SP == " "
NL == "\n"
PLUS == "+"
MkOriginal == "**Original:**"
MkRevised == "**Revised:**"
MkExplanation == "**Explanation:**"

\* What the regular expression's \s matches.
Whitespace == {SP, NL}

Min(S) == CHOOSE x \in S : \A y \in S : x <= y
Max(S) == CHOOSE x \in S : \A y \in S : x >= y

\* All texts of at most n symbols over alphabet A.
Texts(A, n) == UNION {[1..k -> A] : k \in 0..n}

\* Python's `sub in s`.
OccursAt(s, sub, i) ==
    /\ i >= 1
    /\ i + Len(sub) - 1 <= Len(s)
    /\ \A k \in 1..Len(sub) : s[i + k - 1] = sub[k]

Contains(s, sub) == \E i \in 1..(Len(s) + 1) : OccursAt(s, sub, i)

----------------------------------------------------------------------------
\* SmartEditorHandler.format_smarteditor_suggestions

Violation(o, r, e) ==
    [original_sentence |-> o, revised_sentence |-> r, clear_explanation |-> e]

\* The f-string of one violation.
formatted_suggestion(v) ==
    <<MkOriginal, SP>> \o v.original_sentence
        \o <<NL, MkRevised, SP>> \o v.revised_sentence
        \o <<NL, MkExplanation, SP>> \o v.clear_explanation
        \o <<NL, NL>>

\* '\n'.join(parts)
RECURSIVE JoinNL(_)
JoinNL(parts) ==
    IF parts = <<>> THEN <<>>
    ELSE IF Len(parts) = 1 THEN Head(parts)
    ELSE Head(parts) \o <<NL>> \o JoinNL(Tail(parts))

format_smarteditor_suggestions(vs) ==
    JoinNL([i \in 1..Len(vs) |-> formatted_suggestion(vs[i])])

----------------------------------------------------------------------------
\* parse_smarteditor_comment: findall of
\*   \*\*Original:\*\*\s(.*?)\n\*\*Revised:\*\*\s(.*?)\n\*\*Explanation:\*\*
\* with re.DOTALL.

IsAt(s, i, t) == i >= 1 /\ i <= Len(s) /\ s[i] = t

\* \*\*Original:\*\*\s at i
OrigAt(s, i) == IsAt(s, i, MkOriginal) /\ i + 1 <= Len(s) /\ s[i + 1] \in Whitespace

\* \n\*\*Revised:\*\*\s at p
RevAt(s, p) ==
    /\ IsAt(s, p, NL)
    /\ IsAt(s, p + 1, MkRevised)
    /\ p + 2 <= Len(s)
    /\ s[p + 2] \in Whitespace

\* \n\*\*Explanation:\*\* at q
ExplAt(s, q) == IsAt(s, q, NL) /\ IsAt(s, q + 1, MkExplanation)

\* Where the first group may end: a Revised marker after which the rest of the
\* pattern still matches.
RevisedStops(s, i) ==
    LET qs == {q \in 1..Len(s) : ExplAt(s, q)}
    IN  {p \in (i + 2)..Len(s) : RevAt(s, p) /\ \E q \in qs : q >= p + 3}

ExplanationStops(s, p) == {q \in (p + 3)..Len(s) : ExplAt(s, q)}

\* A greedy first group, (.*) for (.*?): the last Revised marker that works.
GreedyFirstGroup(S) == Max(S)

\* The non-greedy choice of (.*?): the shortest group that lets the rest match.
FirstGroupStop(S) == Min(S)

\* A greedy second group.
GreedySecondGroup(S) == Max(S)

SecondGroupStop(S) == Min(S)

NoMatch == [found |-> FALSE]

\* The match of the pattern starting at i, if there is one.
MatchAt(s, i) ==
    IF ~OrigAt(s, i) \/ RevisedStops(s, i) = {} THEN NoMatch
    ELSE LET p == FirstGroupStop(RevisedStops(s, i))
             q == SecondGroupStop(ExplanationStops(s, p))
         IN  [found |-> TRUE,
              original |-> SubSeq(s, i + 2, p - 1),
              revised |-> SubSeq(s, p + 3, q - 1),
              end |-> q + 2]

\* findall: leftmost matches, each search resuming where the last match ended.
RECURSIVE FindAll(_, _)
FindAll(s, from) ==
    LET starts == {i \in from..Len(s) : OrigAt(s, i) /\ RevisedStops(s, i) # {}}
    IN  IF starts = {} THEN <<>>
        ELSE LET m == MatchAt(s, Min(starts))
             IN  <<(<<m.original, m.revised>>)>> \o FindAll(s, m.end)

parse_smarteditor_comment(comment_body) == FindAll(comment_body, 1)

----------------------------------------------------------------------------
\* The formatter and the parser, run on the violations a review returns.

\* What a sentence or an explanation of the review service is made of.
TextAlphabet == {"a", NL, MkOriginal, MkRevised, MkExplanation}

\* The lists of violations of size at most budget, in the service's order.
RECURSIVE ViolationLists(_)
ViolationLists(budget) ==
    {<<>>} \cup
    (IF budget < 1 THEN {}
     ELSE UNION { UNION { UNION {
            {<<Violation(o, r, e)>> \o rest :
                rest \in ViolationLists(budget - 1 - Len(o) - Len(r) - Len(e))}
            : e \in Texts(TextAlphabet, budget - 1 - Len(o) - Len(r)) }
            : r \in Texts(TextAlphabet, budget - 1 - Len(o)) }
            : o \in Texts(TextAlphabet, budget - 1) })

ParserIdle ==
    /\ violations = <<>>
    /\ body = <<>>
    /\ edited = FALSE
    /\ pairs = <<>>
    /\ ppc = "idle"

ReplayIdle ==
    /\ rcontent = <<>>
    /\ rpairs = <<>>
    /\ rfirst = [content |-> <<>>, applied |-> 0]
    /\ rsecond = [content |-> <<>>, applied |-> 0]
    /\ rpc = "idle"

LocateIdle ==
    /\ patch = <<>>
    /\ inPr = FALSE
    /\ violation = Violation(<<>>, <<>>, <<>>)
    /\ reviews = <<>>
    /\ lpc = "idle"

\* What a run of one of the two flows did.
Run(op, upstream, requests, attempts, inline, raised, sel, sug, applied, before, wrote, done) ==
    [op |-> op, upstream |-> upstream, requests |-> requests, attempts |-> attempts,
     inline |-> inline, raised |-> raised, selected |-> sel,
     suggestions |-> sug, applied |-> applied, before |-> before,
     wrote |-> wrote, committed |-> done]

NoRun == Run("none", "unsent", 0, <<>>, 0, FALSE, 0, <<>>, 0, <<>>, FALSE, FALSE)

FlowIdle ==
    /\ thread = <<>>
    /\ file = <<>>
    /\ run = NoRun

ParserInit ==
    /\ violations \in ViolationLists(MaxSize)
    /\ body = <<>>
    /\ edited = FALSE
    /\ pairs = <<>>
    /\ ppc = "violations"
    /\ ReplayIdle /\ LocateIdle /\ FlowIdle

\* process_file renders the violations into the comment it posts.
Format ==
    /\ ppc = "violations"
    /\ body' = format_smarteditor_suggestions(violations)
    /\ ppc' = "comment"
    /\ UNCHANGED <<violations, edited, pairs>>
    /\ UNCHANGED <<replayVars, locateVars, flowVars>>

\* The comment is edited by hand on the platform before it is read back: one
\* symbol of it is deleted.
HandEdit ==
    /\ ppc = "comment"
    /\ ~edited
    /\ \E i \in 1..Len(body) :
          body' = SubSeq(body, 1, i - 1) \o SubSeq(body, i + 1, Len(body))
    /\ edited' = TRUE
    /\ UNCHANGED <<violations, pairs, ppc>>
    /\ UNCHANGED <<replayVars, locateVars, flowVars>>

\* commit_edited_file parses the body of the comment it selected.
Parse ==
    /\ ppc = "comment"
    /\ pairs' = parse_smarteditor_comment(body)
    /\ ppc' = "parsed"
    /\ UNCHANGED <<violations, body, edited>>
    /\ UNCHANGED <<replayVars, locateVars, flowVars>>

ParserNext == Format \/ HandEdit \/ Parse

SpecParser == ParserInit /\ [][ParserNext]_vars

\* [(v.original_sentence, v.revised_sentence) for v in violations]
SentencePairs(vs) ==
    [i \in 1..Len(vs) |-> <<vs[i].original_sentence, vs[i].revised_sentence>>]

RoundTripDone == ppc = "parsed" /\ ~edited

\* The precondition of the specification: no sentence holds "\n**Explanation:**".
NoExplanationMarker(vs) ==
    \A i \in 1..Len(vs) :
        /\ ~Contains(vs[i].original_sentence, <<NL, MkExplanation>>)
        /\ ~Contains(vs[i].revised_sentence, <<NL, MkExplanation>>)

\* What the pattern needs besides: no original sentence holds "\n**Revised:**"
\* and no explanation holds "**Original:**".
NoOtherMarker(vs) ==
    \A i \in 1..Len(vs) :
        /\ ~Contains(vs[i].original_sentence, <<NL, MkRevised>>)
        /\ ~Contains(vs[i].clear_explanation, <<MkOriginal>>)

\* C1 as stated: whenever no sentence holds "\n**Explanation:**", whatever the
\* explanations, parsing the digest gives back the (original, revised) pairs in order.
C1_RoundTripAsStated ==
    (RoundTripDone /\ NoExplanationMarker(violations))
        => pairs = SentencePairs(violations)

\* C1 amended: whenever no sentence holds "\n**Explanation:**", no original
\* sentence holds "\n**Revised:**" and no explanation holds "**Original:**",
\* parsing the digest gives back exactly the (original, revised) pairs, in the
\* same order and number.
C1_RoundTrip ==
    (RoundTripDone /\ NoExplanationMarker(violations) /\ NoOtherMarker(violations))
        => pairs = SentencePairs(violations)

\* Two violations, one with a sentence holding a line break and a marker, parsed back.
C1_Witness ==
    /\ RoundTripDone
    /\ NoExplanationMarker(violations) /\ NoOtherMarker(violations)
    /\ Len(violations) = 2
    /\ Len(pairs) = 2
    /\ \E i \in 1..2 : Contains(violations[i].revised_sentence, <<NL, MkRevised>>)

HasPart(pair, sub) == Contains(pair[1], sub) \/ Contains(pair[2], sub)

\* C9 as stated: no text the parser captures holds "**Original:**".
C9_NoOriginalInsideAsStated ==
    ppc = "parsed" => \A k \in 1..Len(pairs) : ~HasPart(pairs[k], <<MkOriginal>>)

\* C9 amended: the parser returns a list for every comment body, hand-edited
\* ones included; in every pair it returns, the original holds no
\* "\n**Revised:**" followed by whitespace and the revised holds no
\* "\n**Explanation:**" (the three markers of a match come in the order
\* Original, Revised, Explanation, each the first one after the one before);
\* "**Original:**" may occur inside either captured text.
C9_MarkersInOrder ==
    ppc = "parsed" =>
        \A k \in 1..Len(pairs) :
            /\ \A w \in Whitespace : ~Contains(pairs[k][1], <<NL, MkRevised, w>>)
            /\ ~Contains(pairs[k][2], <<NL, MkExplanation>>)

\* A hand-edited comment from which a pair holding "**Original:**" is parsed.
C9_Witness ==
    /\ ppc = "parsed"
    /\ edited
    /\ \E k \in 1..Len(pairs) : HasPart(pairs[k], <<MkOriginal>>)

----------------------------------------------------------------------------
\* The replay loop of commit_edited_file.

\* s.replace("", new): new before every symbol of s and at its end.
Interleave(s, new) ==
    LET m == Len(new)
    IN  [k \in 1..(Len(s) + (Len(s) + 1) * m) |->
            IF (k - 1) % (m + 1) < m
            THEN new[((k - 1) % (m + 1)) + 1]
            ELSE s[((k - 1) \div (m + 1)) + 1]]

\* s.replace(old, new) for a non-empty old: every non-overlapping occurrence,
\* from the left.
RECURSIVE ReplaceEach(_, _, _)
ReplaceEach(s, old, new) ==
    IF s = <<>> THEN <<>>
    ELSE IF OccursAt(s, old, 1)
         THEN new \o ReplaceEach(SubSeq(s, Len(old) + 1, Len(s)), old, new)
         ELSE <<Head(s)>> \o ReplaceEach(Tail(s), old, new)

\* content.replace(original, revised, 1): the first occurrence only.
ReplaceOnce(s, old, new) ==
    IF ~Contains(s, old) THEN s
    ELSE LET i == Min({j \in 1..(Len(s) + 1) : OccursAt(s, old, j)})
         IN  SubSeq(s, 1, i - 1) \o new \o SubSeq(s, i + Len(old), Len(s))

\* Python's s.replace(old, new).
Replace(s, old, new) ==
    IF old = <<>> THEN Interleave(s, new) ELSE ReplaceEach(s, old, new)

\* for original, revised in suggestions: if original in content: ...
RECURSIVE ReplayLoop(_, _, _)
ReplayLoop(content, suggestions, replacements_made) ==
    IF suggestions = <<>>
    THEN [content |-> content, applied |-> replacements_made]
    ELSE LET original == Head(suggestions)[1]
             revised == Head(suggestions)[2]
         IN  IF Contains(content, original)
             THEN ReplayLoop(Replace(content, original, revised),
                             Tail(suggestions), replacements_made + 1)
             ELSE ReplayLoop(content, Tail(suggestions), replacements_made)

ContentAlphabet == {"a", "b"}

\* The lists of pairs of size at most budget.
RECURSIVE PairLists(_)
PairLists(budget) ==
    {<<>>} \cup
    (IF budget < 1 THEN {}
     ELSE UNION { UNION {
            {<<(<<o, r>>)>> \o rest : rest \in PairLists(budget - 1 - Len(o) - Len(r))}
            : r \in Texts(ContentAlphabet, budget - 1 - Len(o)) }
            : o \in Texts(ContentAlphabet, budget - 1) })

ReplayInit ==
    /\ rcontent \in Texts(ContentAlphabet, MaxContent)
    /\ rpairs \in PairLists(MaxPairsSize)
    /\ rfirst = [content |-> <<>>, applied |-> 0]
    /\ rsecond = [content |-> <<>>, applied |-> 0]
    /\ rpc = "start"
    /\ ParserIdle /\ LocateIdle /\ FlowIdle

\* A commit trigger replays the pairs on the file.
FirstReplay ==
    /\ rpc = "start"
    /\ rfirst' = ReplayLoop(rcontent, rpairs, 0)
    /\ rpc' = "once"
    /\ UNCHANGED <<rcontent, rpairs, rsecond>>
    /\ UNCHANGED <<parserVars, locateVars, flowVars>>

\* The same trigger again: the same pairs, on the content the first run left.
SecondReplay ==
    /\ rpc = "once"
    /\ rsecond' = ReplayLoop(rfirst.content, rpairs, 0)
    /\ rpc' = "twice"
    /\ UNCHANGED <<rcontent, rpairs, rfirst>>
    /\ UNCHANGED <<parserVars, locateVars, flowVars>>

ReplayNext == FirstReplay \/ SecondReplay

SpecReplay == ReplayInit /\ [][ReplayNext]_vars

\* C2: a second run of the replay loop with the same pairs on the content the
\* first run produced makes no replacement and leaves the content unchanged.
C2_IdempotentReplay ==
    rpc = "twice" => (rsecond.applied = 0 /\ rsecond.content = rfirst.content)

\* Where old occurs in s, read from the left without overlap, from position i on.
RECURSIVE OccurrencesFrom(_, _, _)
OccurrencesFrom(s, old, i) ==
    IF i > Len(s) + 1 THEN {}
    ELSE IF OccursAt(s, old, i)
         THEN {i} \cup OccurrencesFrom(s, old, i + Max({Len(old), 1}))
         ELSE OccurrencesFrom(s, old, i + 1)

\* s from position i on, with new in the place of old at every position of at.
RECURSIVE WithAllReplaced(_, _, _, _, _)
WithAllReplaced(s, old, new, at, i) ==
    IF i > Len(s) + 1 THEN <<>>
    ELSE IF i \in at /\ old # <<>>
         THEN new \o WithAllReplaced(s, old, new, at, i + Len(old))
         ELSE (IF i \in at THEN new ELSE <<>>)
              \o (IF i <= Len(s) THEN <<s[i]>> ELSE <<>>)
              \o WithAllReplaced(s, old, new, at, i + 1)

\* The content after each pair in turn: stages[k + 1] is the content once the
\* first k pairs were considered, each on what the pairs before it left.
RECURSIVE FoldStages(_, _)
FoldStages(ps, stages) ==
    IF ps = <<>> THEN stages
    ELSE LET cur == stages[Len(stages)]
             original == Head(ps)[1]
             revised == Head(ps)[2]
         IN  FoldStages(Tail(ps),
                 Append(stages,
                     IF Contains(cur, original)
                     THEN WithAllReplaced(cur, original, revised,
                                          OccurrencesFrom(cur, original, 1), 1)
                     ELSE cur))

\* C11: the content the replay loop leaves is the left-to-right fold over the
\* pairs, each pair replacing every occurrence of its original in the content as
\* the earlier pairs left it, or leaving it unchanged when the original does not
\* occur there; applied is the number of pairs whose original occurred when the
\* pair was considered.
C11_SequentialFold ==
    rpc # "start" =>
        \E st \in {FoldStages(rpairs, <<rcontent>>)} :
            /\ rfirst.content = st[Len(st)]
            /\ rfirst.applied =
                   Cardinality({k \in 1..Len(rpairs) : Contains(st[k], rpairs[k][1])})

\* A replay where a pair is applied to text that only an earlier pair's revised
\* brought into the content.
C11_Witness ==
    /\ rpc = "once"
    /\ rfirst.applied >= 2
    /\ \E st \in {FoldStages(rpairs, <<rcontent>>)} :
           \E k \in 2..Len(rpairs) :
               /\ rpairs[k][1] # <<>>
               /\ ~Contains(rcontent, rpairs[k][1])
               /\ Contains(st[k], rpairs[k][1])
               /\ st[k + 1] # st[k]

----------------------------------------------------------------------------
\* SmartEditorHandler.post_review_comment_on_violation

\* file_diff.split('\n')
RECURSIVE Split(_)
Split(text) ==
    IF ~Contains(text, <<NL>>) THEN <<text>>
    ELSE LET k == Min({i \in 1..Len(text) : text[i] = NL})
         IN  <<SubSeq(text, 1, k - 1)>> \o Split(SubSeq(text, k + 1, Len(text)))

\* line.find('+'): the 0-based index of the first '+', -1 when there is none.
Find(line, ch) ==
    IF \E i \in 1..Len(line) : line[i] = ch
    THEN Min({i \in 1..Len(line) : line[i] = ch}) - 1
    ELSE -1

\* line[line.find('+')+1:]
line_text(line) == SubSeq(line, Find(line, PLUS) + 2, Len(line))

\* The two fence lines of a suggestion block (three backquotes each).
FenceSuggestion == "[fence]suggestion"
Fence == "[fence]"

review_message(updated_line, v) ==
    <<"**Suggested Change:**", NL, FenceSuggestion, NL>> \o updated_line
        \o <<NL, Fence, NL, MkExplanation, SP>> \o v.clear_explanation

\* The 0-based indices of the patch lines the loop posts a comment for.
matching_positions(diff_lines, v) ==
    {i \in 0..(Len(diff_lines) - 1) : Contains(diff_lines[i + 1], v.original_sentence)}

\* The k-th element of a set of numbers, in increasing order.
RECURSIVE Sorted(_)
Sorted(S) == IF S = {} THEN <<>> ELSE <<Min(S)>> \o Sorted(S \ {Min(S)})

\* The review comments the loop over diff_lines creates, in order: one for
\* every line that holds the original sentence.
review_comments(file_diff, v) ==
    LET diff_lines == Split(file_diff)
        at == Sorted(matching_positions(diff_lines, v))
    IN  [k \in 1..Len(at) |->
            LET line == diff_lines[at[k] + 1]
                updated_line == Replace(line_text(line), v.original_sentence,
                                        v.revised_sentence)
            IN  [position |-> at[k],
                 updated_line |-> updated_line,
                 message |-> review_message(updated_line, v)]]

PatchAlphabet == {"a", "b", PLUS, NL}
SentenceAlphabet == {"a", "b", PLUS}

LocateInit ==
    /\ patch \in Texts(PatchAlphabet, MaxPatch)
    /\ inPr \in BOOLEAN
    /\ \E o \in Texts(SentenceAlphabet, MaxSentence) \ {<<>>}, r \in {<<>>, <<"c">>} :
          violation = Violation(o, r, <<"e">>)
    /\ reviews = <<>>
    /\ lpc = "start"
    /\ ParserIdle /\ ReplayIdle /\ FlowIdle

\* The file is not among the files of the pull request: a warning, no comment.
PostReviewFileNotFound ==
    /\ lpc = "start"
    /\ ~inPr
    /\ lpc' = "returned"
    /\ UNCHANGED <<patch, inPr, violation, reviews>>
    /\ UNCHANGED <<parserVars, replayVars, flowVars>>

\* The loop over the lines of the patch.  pr.create_review_comment may raise:
\* the comments before it are posted, the exception leaves the method.
PostReviewComments ==
    /\ lpc = "start"
    /\ inPr
    /\ LET all == review_comments(patch, violation)
       IN  \E n \in 0..Len(all) :
              /\ reviews' = SubSeq(all, 1, n)
              /\ lpc' = IF n = Len(all) THEN "returned" ELSE "raised"
    /\ UNCHANGED <<patch, inPr, violation>>
    /\ UNCHANGED <<parserVars, replayVars, flowVars>>

LocateNext == PostReviewFileNotFound \/ PostReviewComments

SpecLocate == LocateInit /\ [][LocateNext]_vars

\* C4: with the file's patch at hand and no API failure, exactly one review
\* comment is posted when some patch line holds the original sentence, anchored
\* at the first such line, and none is posted when no line holds it.
C4_FirstMatchOnly ==
    (lpc = "returned" /\ inPr) =>
        LET at == matching_positions(Split(patch), violation)
        IN  IF at = {} THEN reviews = <<>>
            ELSE Len(reviews) = 1 /\ reviews[1].position = Min(at)

\* A line with a single leading '+' removed when it starts with one, whole otherwise.
WithoutLeadingPlus(line) ==
    IF line # <<>> /\ Head(line) = PLUS THEN Tail(line) ELSE line

\* C10: the suggested text of every matched line is the line without its single
\* leading '+' (the whole line when it does not start with '+'), with the
\* original sentence replaced by the revised one.
C10_UpdatedLine ==
    \A k \in 1..Len(reviews) :
        reviews[k].updated_line =
            Replace(WithoutLeadingPlus(Split(patch)[reviews[k].position + 1]),
                    violation.original_sentence, violation.revised_sentence)

----------------------------------------------------------------------------
\* The two flows of main(), on one file of a pull request.

file_path == "doc.md"

\* A backquote, which the program puts around file paths.
BQ == "[backquote]"

None == "None"

\* f"SMARTEDITOR suggestions for `{file_path}`"
DigestMarker(f) == <<"SMARTEDITOR suggestions for ", BQ, f, BQ>>

RunUrlText == "[Explore how the LLM generated them.](run_url)"

\* A comment of the thread: its body, and for the reading of the claims who
\* posted it as what, and the violations a digest was rendered from.
Comment(kind, text, vs) == [kind |-> kind, body |-> text, violations |-> vs]

failure_comment(f) ==
    Comment("failure",
            <<"Failed to get a response from the SMARTEDITOR_ENDPOINT for file ", BQ, f, BQ,
              ". Please check the logs for more details.">>, <<>>)

clean_comment(f) ==
    Comment("clean",
            <<"There appear to be no instances of sentences that violate the style guide rules in ",
              BQ, f, BQ, ".">>, <<>>)

error_comment(f) ==
    Comment("error",
            <<"Error processing file ", BQ, f, BQ,
              ". Please check the logs for more details.">>, <<>>)

\* review_comment of the 'added' branch
header_comment(f, run_url) ==
    Comment("header",
            DigestMarker(f) \o <<" posted below.">>
                \o (IF run_url THEN <<SP, RunUrlText>> ELSE <<>>), <<>>)

\* final_comment of the 'modified' branch
digest_comment(f, vs, run_url) ==
    Comment("digest",
            DigestMarker(f) \o <<":", NL, NL>> \o format_smarteditor_suggestions(vs)
                \o (IF run_url THEN <<RunUrlText>> ELSE <<>>)
                \o <<" Use ", BQ, "smarteditor ", f, " --commit", BQ,
                     " to commit all suggestions.">>, vs)

\* A retry of a request that timed out.
SendWithRetry(upstream, vs, run_url) ==
    [requests |-> IF upstream = "timeout" THEN 2 ELSE 1,
     success |-> upstream = "ok",
     data |-> IF upstream = "ok" THEN [violations |-> vs, run_url |-> run_url] ELSE None]

\* SmartEditorHandler.send_to_smarteditor: one POST; a timeout, an HTTP error
\* status and any other error are logged and leave success False, data None.
send_to_smarteditor(upstream, vs, run_url) ==
    [requests |-> 1,
     success |-> upstream = "ok",
     data |-> IF upstream = "ok" THEN [violations |-> vs, run_url |-> run_url] ELSE None]

\* The patch of a file the pull request adds: a hunk header, every line added.
AddedPatch(content) == <<"@@ -0,0 +1 @@", NL, PLUS>> \o content

\* The review comments of the loop over the violations of an added file.
RECURSIVE inline_comments(_, _)
inline_comments(file_diff, vs) ==
    IF vs = <<>> THEN <<>>
    ELSE review_comments(file_diff, Head(vs)) \o inline_comments(file_diff, Tail(vs))

\* process_file.  fault names the call that raises when it is reached ("none":
\* no call does); error_post_raises tells whether the post_comment of the
\* except clause raises.  The result: the comments post_comment was called
\* with, in order, each with whether the call succeeded; the number of review
\* comments created; the number of requests sent; whether an exception left
\* the function.
process_file(f, content, fault, error_post_raises, upstream, vs, run_url, file_status) ==
    LET response == send_to_smarteditor(upstream, vs, run_url)
        Post(c) == [comment |-> c, ok |-> fault # "post_comment"]
        Handler(attempts, requests, inline) ==
            [attempts |-> attempts \o <<[comment |-> error_comment(f),
                                         ok |-> ~error_post_raises]>>,
             inline |-> inline, requests |-> requests, raised |-> error_post_raises]
        Return(attempts, inline) ==
            [attempts |-> attempts, inline |-> inline,
             requests |-> response.requests, raised |-> FALSE]
        PostAndReturn(c) ==
            IF fault = "post_comment"
            THEN Handler(<<Post(c)>>, response.requests, 0)
            ELSE Return(<<Post(c)>>, 0)
    IN  IF fault = "read" THEN Handler(<<>>, 0, 0)
        ELSE IF ~response.success THEN PostAndReturn(failure_comment(f))
        ELSE IF response.data.violations = <<>> THEN PostAndReturn(clean_comment(f))
        ELSE IF fault = "get_file_status" THEN Handler(<<>>, response.requests, 0)
        ELSE IF file_status = "added"
             THEN LET header == header_comment(f, response.data.run_url)
                      all == inline_comments(AddedPatch(content), response.data.violations)
                  IN  IF fault = "post_comment"
                      THEN Handler(<<Post(header)>>, response.requests, 0)
                      ELSE IF fault = "review_comment" /\ all # <<>>
                      THEN Handler(<<Post(header)>>, response.requests, 0)
                      ELSE Return(<<Post(header)>>, Len(all))
        ELSE IF file_status = "modified"
             THEN PostAndReturn(digest_comment(f, response.data.violations,
                                               response.data.run_url))
        ELSE Return(<<>>, 0)

\* The comments that reached the thread.
RECURSIVE Posted(_)
Posted(attempts) ==
    IF attempts = <<>> THEN <<>>
    ELSE (IF Head(attempts).ok THEN <<Head(attempts).comment>> ELSE <<>>)
            \o Posted(Tail(attempts))

\* The 1-based index of the comment commit_edited_file selects: the latest
\* whose body holds the marker of the file; 0 when there is none.
latest_review_comment(comments, f) ==
    LET with == {i \in 1..Len(comments) : Contains(comments[i].body, DigestMarker(f))}
    IN  IF with = {} THEN 0 ELSE Max(with)

\* A commit whatever the count.
AlwaysCommit(replacements_made) == replacements_made >= 0

\* if replacements_made > 0
ShouldCommit(replacements_made) == replacements_made > 0

\* commit_edited_file.  fault names the call that raises when it is reached.
\* The result: the comment selected, the pairs parsed, the outcome of the
\* loop, whether the file was opened for writing and commit_and_push called,
\* and whether an exception left the function.
commit_edited_file(comments, f, content, fault) ==
    LET selected == latest_review_comment(comments, f)
        suggestions == parse_smarteditor_comment(comments[selected].body)
        out == ReplayLoop(content, suggestions, 0)
        Result(sel, sug, applied, new, wrote, committed, raised) ==
            [selected |-> sel, suggestions |-> sug, applied |-> applied, content |-> new,
             wrote |-> wrote, committed |-> committed, raised |-> raised]
    IN  IF fault = "get_issue_comments" THEN Result(0, <<>>, 0, content, FALSE, FALSE, TRUE)
        ELSE IF selected = 0 THEN Result(0, <<>>, 0, content, FALSE, FALSE, FALSE)
        ELSE IF fault = "read" THEN Result(selected, suggestions, 0, content, FALSE, FALSE, TRUE)
        ELSE IF ~ShouldCommit(out.applied)
             THEN Result(selected, suggestions, out.applied, content, FALSE, FALSE, FALSE)
        ELSE IF fault = "write"
             THEN Result(selected, suggestions, out.applied, content, TRUE, FALSE, TRUE)
        ELSE Result(selected, suggestions, out.applied, out.content, TRUE, TRUE,
                    fault = "commit_and_push")

\* A reply quoting a comment: "> " before each of its lines.
Quote(text) ==
    LET lines == Split(text)
    IN  JoinNL([i \in 1..Len(lines) |-> <<">", SP>> \o lines[i]])

ProcessFaults == {"none", "read", "post_comment", "get_file_status", "review_comment"}
CommitFaults == {"none", "get_issue_comments", "read", "write", "commit_and_push"}
Upstreams == {"ok", "timeout", "http_error", "error"}
FileStatuses == {"added", "modified", "removed"}

V1 == Violation(<<"a">>, <<"b">>, <<"e">>)
V2 == Violation(<<"b">>, <<"a">>, <<"e">>)
ServiceViolations == {<<>>, <<V1>>, <<V1, V2>>}

Init ==
    /\ thread = <<>>
    /\ file = <<"a", "b">>
    /\ run = NoRun
    /\ ParserIdle /\ ReplayIdle /\ LocateIdle

\* "/smarteditor doc.md": the review flow.  The inputs a run cannot read are
\* held fixed: the handler's post when no call raises, the violations of a
\* failed request, the run URL and the file status when there is no violation.
ProcessFile ==
    /\ Len(thread) + 2 <= MaxThread
    /\ \E fault \in ProcessFaults, upstream \in Upstreams :
       \E error_post_raises \in IF fault = "none" THEN {FALSE} ELSE BOOLEAN,
          vs \in IF upstream = "ok" THEN ServiceViolations ELSE {<<>>} :
       \E run_url \in IF vs = <<>> THEN {FALSE} ELSE BOOLEAN,
          file_status \in IF vs = <<>> THEN {"removed"} ELSE FileStatuses :
       \E r \in {process_file(file_path, file, fault, error_post_raises, upstream, vs,
                              run_url, file_status)} :
              /\ thread' = thread \o Posted(r.attempts)
              /\ run' = Run("review", IF r.requests = 0 THEN "unsent" ELSE upstream,
                            r.requests,
                            [i \in 1..Len(r.attempts) |->
                                [kind |-> r.attempts[i].comment.kind, ok |-> r.attempts[i].ok]],
                            r.inline, r.raised, 0, <<>>, 0, file, FALSE, FALSE)
    /\ UNCHANGED file
    /\ UNCHANGED <<parserVars, replayVars, locateVars>>

\* "/smarteditor doc.md --commit": the commit flow.  A write that raises
\* leaves the file as it was or truncated.
CommitEditedFile ==
    /\ \E fault \in CommitFaults :
       \E r \in {commit_edited_file(thread, file_path, file, fault)} :
              /\ file' \in IF r.wrote /\ ~r.committed THEN {file, <<>>} ELSE {r.content}
              /\ run' = Run("commit", "unsent", 0, <<>>, 0, r.raised, r.selected,
                            r.suggestions, r.applied, file, r.wrote, r.committed)
    /\ UNCHANGED thread
    /\ UNCHANGED <<parserVars, replayVars, locateVars>>

\* Somebody comments on the pull request: a command, or a reply quoting an
\* earlier comment.  No run has answered it yet.
PostUserComment ==
    /\ Len(thread) < MaxThread
    /\ \/ thread' = Append(thread,
                Comment("user", <<"/smarteditor ", file_path, " --commit">>, <<>>))
       \/ \E i \in 1..Len(thread) :
             thread' = Append(thread, Comment("user", Quote(thread[i].body), <<>>))
    /\ run' = NoRun
    /\ UNCHANGED file
    /\ UNCHANGED <<parserVars, replayVars, locateVars>>

Next == ProcessFile \/ CommitEditedFile \/ PostUserComment

Spec == Init /\ [][Next]_vars

Last(seq) == seq[Len(seq)]

\* C3: a commit run opens the file for writing and calls commit_and_push only
\* when at least one pair was applied; when none was, an empty list of pairs
\* included, the file is as it was and commit_and_push is not called.
C3_CommitOnlyIfApplied ==
    run.op = "commit" =>
        /\ (run.wrote \/ run.committed) => run.applied > 0
        /\ run.applied = 0 => (file = run.before /\ ~run.wrote /\ ~run.committed)

\* A commit run whose pairs are all absent from the file.
C3_Witness ==
    /\ run.op = "commit"
    /\ ~run.raised
    /\ run.suggestions # <<>>
    /\ run.applied = 0
    /\ file = run.before

\* The thread's digest comments.
Digests == {i \in 1..Len(thread) : thread[i].kind = "digest"}

\* C5: once a digest comment of the file is on the thread, a commit run that
\* got the thread reads the latest digest comment, no other comment, and
\* replays the pairs of the violations that digest was rendered from.
C5_LatestDigestReplayed ==
    (run.op = "commit" /\ ~(run.raised /\ run.selected = 0) /\ Digests # {}) =>
        /\ run.selected = Max(Digests)
        /\ thread[run.selected].kind = "digest"
        /\ run.suggestions = SentencePairs(thread[Max(Digests)].violations)

UpstreamFailed == run.op = "review" /\ run.upstream \in {"timeout", "http_error", "error"}

\* C6: when the request to the review service times out, is answered with an
\* error status or fails otherwise, one request was sent, post_comment is
\* called with the failure message of the file first (and it is the run's only
\* comment when that call succeeds), every comment of the run is a failure or
\* error message, and no digest, header or review comment is posted.
C6_UpstreamFailure ==
    UpstreamFailed =>
        /\ run.requests = 1
        /\ run.inline = 0
        /\ Len(run.attempts) >= 1
        /\ run.attempts[1].kind = "failure"
        /\ \A i \in 1..Len(run.attempts) : run.attempts[i].kind \in {"failure", "error"}
        /\ run.attempts[1].ok =>
              /\ Len(run.attempts) = 1
              /\ ~run.raised
              /\ thread # <<>>
              /\ Last(thread) = failure_comment(file_path)

\* A request that timed out, and the failure comment on the thread.
C6_Witness ==
    /\ UpstreamFailed
    /\ run.upstream = "timeout"
    /\ run.attempts[1].ok
    /\ Last(thread).kind = "failure"

\* C7 as stated: a commit run whose selected comment gives no pair writes and
\* commits nothing and posts a comment on the pull request.
C7_ParseEmptyReportedAsStated ==
    [][(run'.op = "commit" /\ run'.selected # 0 /\ run'.suggestions = <<>>)
          => (~run'.wrote /\ ~run'.committed /\ thread' # thread)]_vars

\* C7 amended: a commit run whose selected comment gives no pair applies
\* nothing, leaves the file as it was, calls neither the write nor
\* commit_and_push, and posts no comment on the pull request: the failure is
\* only logged.
C7_ParseEmptySilent ==
    [][(run'.op = "commit" /\ run'.selected # 0 /\ run'.suggestions = <<>>)
          => /\ run'.applied = 0
             /\ ~run'.wrote /\ ~run'.committed
             /\ file' = file
             /\ thread' = thread]_vars

\* A commit run that selected the header comment of an added file.
C7_Witness ==
    /\ run.op = "commit"
    /\ ~run.raised
    /\ run.selected # 0
    /\ thread[run.selected].kind = "header"
    /\ run.suggestions = <<>>

\* C8: no run of either flow ends with an exception leaving the function.
C8_NoExceptionEscapes == ~run.raised

====
